---- MODULE Spec2Model ----
(***************************************************************************)
(* HPF pansharpening (python/functions.py, python/pansharpen.py).          *)
(*                                                                         *)
(* Numbers.  A float is a set holding at most one integer: {} is           *)
(* numpy.nan and {n} is the number n / Scale.  Scale is the 25 the kernel  *)
(* is divided by, so every value the program computes from whole-number    *)
(* pixels is exact.  Arithmetic on these sets propagates nan by itself.    *)
(* float32 rounding is not modelled.                                       *)
(*                                                                         *)
(* Arrays are functions indexed from 0, as in Python:                      *)
(* array[band][row][column].                                               *)
(***************************************************************************)
EXTENDS Integers, Sequences, FiniteSets, TLC

VARIABLES
    pc,             \* position in the routine under way
    nodata,         \* the nodata argument of pansharpening
    pan_file,       \* the dataset at the PAN path
    mul_file,       \* the dataset at the resampled MUL path
    pan_arr,        \* functions.py:121
    projection,     \* functions.py:121
    geoTrans,       \* functions.py:121
    pan_spatial,    \* functions.py:124
    mul_arr,        \* functions.py:127
    bbox_pan,       \* functions.py:130
    i,              \* loop index of functions.py:156
    pansharpen,     \* the band under computation, functions.py:162-164
    fused,          \* history: each band as computed by line 162
    out_img,        \* the output dataset, functions.py:141
    log,            \* history: the calls made on out_img, in order
    array,          \* argument of high_pass_filter
    convolve_image, \* result of high_pass_filter
    exists,         \* pansharpen.py:46, os.path.exists(mul_img_resized)
    bbox,           \* pansharpen.py:35
    os_system,      \* history: the commands handed to os.system
    call            \* outcome of the call on pansharpen.py:63

vars == <<pc, nodata, pan_file, mul_file, pan_arr, projection, geoTrans,
          pan_spatial, mul_arr, bbox_pan, i, pansharpen, fused, out_img, log,
          array, convolve_image, exists, bbox, os_system, call>>

pipeVars == <<nodata, pan_file, mul_file, pan_arr, projection, geoTrans,
              pan_spatial, mul_arr, bbox_pan, i, pansharpen, fused, out_img, log>>
hpfVars == <<array, convolve_image>>
scriptVars == <<exists, bbox, os_system, call>>

---------------------------------------------------------------------------
\* Bounds of the model
Rows == 5
Cols == 5
MaxBands == 2
MaxVal == 1

Vals == 0..MaxVal
Cells == (0..Rows-1) \X (0..Cols-1)

---------------------------------------------------------------------------
\* Floats

Scale == 25

NaN == {}
None == <<>>
Unset == <<>>

\* the whole number n as a float
F(n) == {n * Scale}

isnan(x) == x = NaN

Add(x, y) == {a + b : a \in x, b \in y}
Sub(x, y) == {a - b : a \in x, b \in y}

\* the product of the kernel weight w / Scale and the float x, before the
\* division by Scale that SumTerms' caller applies to the whole sum
Times(w, x) == {w * a : a \in x}

\* x == y on floats: nan equals nothing, itself included
FloatEq(x, y) == x # NaN /\ y # NaN /\ x = y

---------------------------------------------------------------------------
\* Arrays

nbands(a) == Cardinality(DOMAIN a)
nrows(a) == Cardinality(DOMAIN a[0])
ncols(a) == Cardinality(DOMAIN a[0][0])

shape(a) == <<nbands(a), nrows(a), ncols(a)>>

\* a cell of the array extended by cval outside its bounds (mode='constant')
Extended(a, b, r, c, cv) ==
    IF b \in DOMAIN a /\ r \in DOMAIN a[0] /\ c \in DOMAIN a[0][0]
    THEN a[b][r][c]
    ELSE cv

RECURSIVE SumTerms(_, _)
SumTerms(t, n) == IF n = 0 THEN {0} ELSE Add(t[n - 1], SumTerms(t, n - 1))

\* the sum divided by Scale: exact, the pixels being whole numbers
Quot(x) == {a \div Scale : a \in x}

---------------------------------------------------------------------------
\* high_pass_filter (functions.py:78-106)

\* the weights before "/ 25": the weight w stands for w / Scale
highPassMatrix_centre25 ==
    << <<-1, -1, -1, -1, -1>>,
       <<-1, -1, -1, -1, -1>>,
       <<-1, -1, 25, -1, -1>>,
       <<-1, -1, -1, -1, -1>>,
       <<-1, -1, -1, -1, -1>> >>

highPassMatrix ==
    << <<-1, -1, -1, -1, -1>>,
       <<-1, -1, -1, -1, -1>>,
       <<-1, -1, 24, -1, -1>>,
       <<-1, -1, -1, -1, -1>>,
       <<-1, -1, -1, -1, -1>> >>

cval_zero == {0}

cval == NaN

\* scipy.ndimage.convolve(input, weights, mode='constant', cval=cv): an
\* N-dimensional convolution over all three axes (band, row, column).  The
\* output cell p is the sum over the kernel cells j of
\* weights[j] * input[p + size \div 2 - j], the input extended by cv.
convolve(input, weights, cv) ==
    LET KB == Len(weights)
        KR == Len(weights[1])
        KC == Len(weights[1][1])
        term(b, r, c, jb, jr, jc) ==
            Times(weights[jb + 1][jr + 1][jc + 1],
                  Extended(input, b + (KB \div 2) - jb,
                                  r + (KR \div 2) - jr,
                                  c + (KC \div 2) - jc, cv))
        overCols(b, r, c, jb, jr) ==
            SumTerms([jc \in 0..(KC - 1) |-> term(b, r, c, jb, jr, jc)], KC)
        overRows(b, r, c, jb) ==
            SumTerms([jr \in 0..(KR - 1) |-> overCols(b, r, c, jb, jr)], KR)
        overBands(b, r, c) ==
            SumTerms([jb \in 0..(KB - 1) |-> overRows(b, r, c, jb)], KB)
    IN  [b \in DOMAIN input |->
            [r \in DOMAIN input[0] |->
                [c \in DOMAIN input[0][0] |-> Quot(overBands(b, r, c))]]]

\* lines 97-101: the matrix repeated once per band and stacked
StackKernel(B) == [b \in 1..B |-> highPassMatrix]

high_pass_filter(a) == convolve(a, StackKernel(nbands(a)), cval)

---------------------------------------------------------------------------
\* read_raster (functions.py:15-52)

\* ds == nodata, cell by cell; ds == None is False everywhere
EqNodata(x, nd) == nd # None /\ FloatEq(x, nd[1])

\* returns (raw_image_np, projection, geoTrans); src_ds is the dataset
\* gdal.Open gives for the path, nd the nodata argument (None when omitted)
read_raster(src_ds, nd) ==
    LET n_bands == src_ds.RasterCount
        raw_image ==
            [b \in 0..(n_bands - 1) |->
                [r \in 0..(src_ds.RasterYSize - 1) |->
                    [c \in 0..(src_ds.RasterXSize - 1) |->
                        LET ds == F(src_ds.band[b + 1][r][c])
                        IN  IF EqNodata(ds, nd) THEN NaN ELSE ds]]]
    IN  <<raw_image, src_ds.projection, src_ds.geoTrans>>

---------------------------------------------------------------------------
\* get_bbox (functions.py:54-76); a Python index k is k + 1 here

get_bbox(src_ds) ==
    LET gt == src_ds.geoTrans
        resX == gt[2]
        resY == gt[6]
        ulx == gt[1]
        uly == gt[4]
        lrx == ulx + (src_ds.RasterXSize * resX)
        lry == uly + (src_ds.RasterYSize * resY)
    IN  <<ulx, lry, lrx, uly, resX, resY>>

---------------------------------------------------------------------------
\* pansharpening (functions.py:108-178)

\* line 162: band + (pan_arr2d - pan_spatial2d)
Fusion_detail(band, pan_arr2d, pan_spatial2d) ==
    [r \in DOMAIN band |->
        [c \in DOMAIN band[r] |-> Add(band[r][c], pan_spatial2d[r][c])]]

Fusion(band, pan_arr2d, pan_spatial2d) ==
    [r \in DOMAIN band |->
        [c \in DOMAIN band[r] |->
            Add(band[r][c], Sub(pan_arr2d[r][c], pan_spatial2d[r][c]))]]

\* line 164: pansharpen[np.isnan(pansharpen)] = nodata.  None stored in a
\* float raster is nan again.
ReplaceNaN(band, nd) ==
    [r \in DOMAIN band |->
        [c \in DOMAIN band[r] |->
            IF isnan(band[r][c])
            THEN (IF nd = None THEN NaN ELSE nd[1])
            ELSE band[r][c]]]

\* lines 168-171: the calls made on the output dataset for band number b
BandCalls_writeFirst(b, nd) ==
    <<[op |-> "WriteArray", band |-> b]>> \o
    (IF nd # None THEN <<[op |-> "SetNoDataValue", band |-> b]>> ELSE <<>>)

BandCalls(b, nd) ==
    (IF nd # None THEN <<[op |-> "SetNoDataValue", band |-> b]>> ELSE <<>>)
    \o <<[op |-> "WriteArray", band |-> b]>>

\* lines 173-178
FinalCalls ==
    <<[op |-> "SetGeoTransform", band |-> 0],
      [op |-> "SetProjection", band |-> 0],
      [op |-> "FlushCache", band |-> 0]>>

\* lines 141-148: driver.Create(path, columns, rows, n_bands, GDT_Float32)
Create(columns, rows, n_bands) ==
    [RasterXSize |-> columns, RasterYSize |-> rows, RasterCount |-> n_bands,
     written |-> {},
     band |-> [b \in 1..n_bands |-> Unset],
     NoDataValue |-> [b \in 1..n_bands |-> None],
     geoTrans |-> Unset, projection |-> Unset, flushed |-> FALSE]

---------------------------------------------------------------------------
\* Inputs of pansharpening.  Pixels are whole numbers.  Both rasters are
\* Rows x Cols (the MUL raster is already resampled to the PAN grid); the
\* PAN raster has one band, the MUL raster 1..MaxBands.  Each raster holds a
\* fixed pattern of values above MaxVal, and one of them holds the value v
\* of 0..MaxVal at one cell (in every band).  The nodata argument is None,
\* nan or a whole number of 0..MaxVal.

NoCell == <<-1, -1>>

PanBase(r, c) == MaxVal + 1 + r * c
MulBase(b, r, c) == MaxVal + 1 + b + c

PanFile(cell, v) ==
    [RasterCount |-> 1, RasterXSize |-> Cols, RasterYSize |-> Rows,
     band |-> [b \in 1..1 |->
                [r \in 0..(Rows - 1) |->
                    [c \in 0..(Cols - 1) |->
                        IF <<r, c>> = cell THEN v ELSE PanBase(r, c)]]],
     projection |-> "PAN_WKT",
     geoTrans |-> <<v, 1, 0, v + Rows, 0, -1>>]

MulFile(N, cell, v) ==
    [RasterCount |-> N, RasterXSize |-> Cols, RasterYSize |-> Rows,
     band |-> [b \in 1..N |->
                [r \in 0..(Rows - 1) |->
                    [c \in 0..(Cols - 1) |->
                        IF <<r, c>> = cell THEN v ELSE MulBase(b, r, c)]]],
     projection |-> "EPSG:32642",
     geoTrans |-> <<0, 1, 0, Rows, 0, -1>>]

Nodatas == {None, <<NaN>>} \cup {<<F(s)>> : s \in Vals}

Init ==
    /\ pc = "L121"
    /\ nodata \in Nodatas
    /\ \E cell \in Cells, v \in Vals, N \in 1..MaxBands, inPan \in BOOLEAN :
        /\ pan_file = PanFile(IF inPan THEN cell ELSE NoCell, v)
        /\ mul_file = MulFile(N, IF inPan THEN NoCell ELSE cell, v)
    /\ pan_arr = Unset /\ projection = Unset /\ geoTrans = Unset
    /\ pan_spatial = Unset /\ mul_arr = Unset /\ bbox_pan = Unset
    /\ i = 0 /\ pansharpen = Unset /\ fused = <<>>
    /\ out_img = Unset /\ log = <<>>
    /\ array = Unset /\ convolve_image = Unset
    /\ exists = TRUE /\ bbox = Unset /\ os_system = <<>> /\ call = Unset

\* line 121
ReadPan ==
    /\ pc = "L121"
    /\ LET got == read_raster(pan_file, nodata)
       IN  /\ pan_arr' = got[1]
           /\ projection' = got[2]
           /\ geoTrans' = got[3]
    /\ pc' = "L124"
    /\ UNCHANGED <<nodata, pan_file, mul_file, pan_spatial, mul_arr, bbox_pan,
                   i, pansharpen, fused, out_img, log, hpfVars, scriptVars>>

\* line 124
HighPass ==
    /\ pc = "L124"
    /\ pan_spatial' = high_pass_filter(pan_arr)
    /\ pc' = "L127"
    /\ UNCHANGED <<nodata, pan_file, mul_file, pan_arr, projection, geoTrans,
                   mul_arr, bbox_pan, i, pansharpen, fused, out_img, log,
                   hpfVars, scriptVars>>

\* line 127: the nodata argument is omitted
ReadMul ==
    /\ pc = "L127"
    /\ mul_arr' = read_raster(mul_file, None)[1]
    /\ pc' = "L130"
    /\ UNCHANGED <<nodata, pan_file, mul_file, pan_arr, projection, geoTrans,
                   pan_spatial, bbox_pan, i, pansharpen, fused, out_img, log,
                   hpfVars, scriptVars>>

\* lines 130-148
CreateOutput ==
    /\ pc = "L130"
    /\ bbox_pan' = get_bbox(pan_file)
    /\ out_img' = Create(ncols(mul_arr), nrows(mul_arr), nbands(mul_arr))
    /\ i' = 0
    /\ pc' = "L156"
    /\ UNCHANGED <<nodata, pan_file, mul_file, pan_arr, projection, geoTrans,
                   pan_spatial, mul_arr, pansharpen, fused, log,
                   hpfVars, scriptVars>>

\* lines 156-162
Fuse ==
    /\ pc = "L156"
    /\ i < nbands(mul_arr)
    /\ pansharpen' = Fusion(mul_arr[i], pan_arr[0], pan_spatial[0])
    /\ fused' = Append(fused, pansharpen')
    /\ pc' = "L164"
    /\ UNCHANGED <<nodata, pan_file, mul_file, pan_arr, projection, geoTrans,
                   pan_spatial, mul_arr, bbox_pan, i, out_img, log,
                   hpfVars, scriptVars>>

\* line 164
Restore ==
    /\ pc = "L164"
    /\ pansharpen' = ReplaceNaN(pansharpen, nodata)
    /\ pc' = "L168"
    /\ UNCHANGED <<nodata, pan_file, mul_file, pan_arr, projection, geoTrans,
                   pan_spatial, mul_arr, bbox_pan, i, fused, out_img, log,
                   hpfVars, scriptVars>>

\* lines 168-171, then the next turn of the loop
SaveBand ==
    /\ pc = "L168"
    /\ out_img' =
        [out_img EXCEPT
            !.NoDataValue[i + 1] = IF nodata # None THEN nodata ELSE @,
            !.band[i + 1] = pansharpen,
            !.written = @ \cup {i + 1}]
    /\ log' = log \o BandCalls(i + 1, nodata)
    /\ i' = i + 1
    /\ pc' = "L156"
    /\ UNCHANGED <<nodata, pan_file, mul_file, pan_arr, projection, geoTrans,
                   pan_spatial, mul_arr, bbox_pan, pansharpen, fused,
                   hpfVars, scriptVars>>

\* lines 173-178: GetGeoTransform and GetProjection never return None
Finish ==
    /\ pc = "L156"
    /\ i = nbands(mul_arr)
    /\ out_img' = [out_img EXCEPT !.geoTrans = geoTrans,
                                  !.projection = projection,
                                  !.flushed = TRUE]
    /\ log' = log \o FinalCalls
    /\ pc' = "done"
    /\ UNCHANGED <<nodata, pan_file, mul_file, pan_arr, projection, geoTrans,
                   pan_spatial, mul_arr, bbox_pan, i, pansharpen, fused,
                   hpfVars, scriptVars>>

Next ==
    \/ ReadPan
    \/ HighPass
    \/ ReadMul
    \/ CreateOutput
    \/ Fuse
    \/ Restore
    \/ SaveBand
    \/ Finish

Spec == Init /\ [][Next]_vars

---------------------------------------------------------------------------
\* Inputs of high_pass_filter: stacks of 1..MaxBands bands holding the value
\* base everywhere but at one cell of one band, which holds v (a whole
\* number or nan).

Stack(B, base, sb, cell, v) ==
    [b \in 0..(B - 1) |->
        [r \in 0..(Rows - 1) |->
            [c \in 0..(Cols - 1) |->
                IF b = sb /\ <<r, c>> = cell THEN v ELSE F(base)]]]

Stacks ==
    {Stack(B, base, sb, cell, v) :
        B \in 1..MaxBands, base \in Vals, sb \in 0..(MaxBands - 1),
        cell \in Cells, v \in {F(x) : x \in Vals} \cup {NaN}}

InitHPF ==
    /\ pc = "high_pass_filter"
    /\ array \in Stacks
    /\ convolve_image = Unset
    /\ nodata = None
    /\ pan_file = Unset /\ mul_file = Unset
    /\ pan_arr = Unset /\ projection = Unset /\ geoTrans = Unset
    /\ pan_spatial = Unset /\ mul_arr = Unset /\ bbox_pan = Unset
    /\ i = 0 /\ pansharpen = Unset /\ fused = <<>>
    /\ out_img = Unset /\ log = <<>>
    /\ exists = FALSE /\ bbox = Unset /\ os_system = <<>> /\ call = Unset

HighPassFilter ==
    /\ pc = "high_pass_filter"
    /\ convolve_image' = high_pass_filter(array)
    /\ pc' = "returned"
    /\ UNCHANGED <<array, pipeVars, scriptVars>>

NextHPF == HighPassFilter

SpecHPF == InitHPF /\ [][NextHPF]_vars

---------------------------------------------------------------------------
\* The reference flow (pansharpen.py).  The PAN dataset has any origin of
\* 0..MaxVal and any pixel size of -(MaxVal+1)..MaxVal+1 but 0; the file at
\* mul_img_resized exists or not.

mul_img == "mul.tif"
pan_img == "pan.tif"
out_path == "pansharp_py.tif"
mul_img_resized == "mul_resizePython.tif"

Res == {k : k \in 1..(MaxVal + 1)} \cup {-k : k \in 1..(MaxVal + 1)}

ScriptPan(ox, rx, oy, ry) ==
    [RasterCount |-> 1, RasterXSize |-> Cols, RasterYSize |-> Rows,
     band |-> [b \in 1..1 |->
                [r \in 0..(Rows - 1) |->
                    [c \in 0..(Cols - 1) |-> PanBase(r, c)]]],
     projection |-> "PAN_WKT",
     geoTrans |-> <<ox, rx, 0, oy, 0, ry>>]

\* functions.py:108: def pansharpening(mul_resize, pan, outPath, nodata),
\* no parameter has a default
pansharpening_params == <<"mul_resize", "pan", "outPath", "nodata">>

\* pansharpen.py:63: the positional arguments of the call
call_args == <<mul_img_resized, pan_img, out_path>>

\* Python binds the arguments to the parameters before the body runs and
\* raises TypeError when a parameter without default is left unbound
CallFunction(params, args) ==
    IF Len(args) = Len(params)
    THEN [raised |-> "", ran |-> TRUE, args |-> args]
    ELSE [raised |-> "TypeError", ran |-> FALSE, args |-> args]

\* pansharpen.py:47-56: the values formatted into the gdalwarp command
gdal_warp_resolved(bb) ==
    [xmin |-> bb[1], xmax |-> bb[3], ymin |-> bb[2], ymax |-> bb[4],
     resX |-> bb[5], resY |-> bb[6],
     input_img |-> mul_img, output_img |-> mul_img_resized]

InitScript ==
    /\ pc = "S35"
    /\ exists \in BOOLEAN
    /\ \E ox \in Vals, oy \in Vals, rx \in Res, ry \in Res :
        pan_file = ScriptPan(ox, rx, oy, ry)
    /\ bbox = Unset /\ os_system = <<>> /\ call = Unset
    /\ nodata = None /\ mul_file = Unset
    /\ pan_arr = Unset /\ projection = Unset /\ geoTrans = Unset
    /\ pan_spatial = Unset /\ mul_arr = Unset /\ bbox_pan = Unset
    /\ i = 0 /\ pansharpen = Unset /\ fused = <<>>
    /\ out_img = Unset /\ log = <<>>
    /\ array = Unset /\ convolve_image = Unset

\* pansharpen.py:35
GetBBox ==
    /\ pc = "S35"
    /\ bbox' = get_bbox(pan_file)
    /\ pc' = "S46"
    /\ UNCHANGED <<exists, os_system, call, pipeVars, hpfVars>>

\* pansharpen.py:46-58, the file is missing
Warp ==
    /\ pc = "S46"
    /\ ~exists
    /\ os_system' = Append(os_system, gdal_warp_resolved(bbox))
    /\ pc' = "S63"
    /\ UNCHANGED <<exists, bbox, call, pipeVars, hpfVars>>

\* pansharpen.py:46, the file is there
Reuse ==
    /\ pc = "S46"
    /\ exists
    /\ pc' = "S63"
    /\ UNCHANGED <<scriptVars, pipeVars, hpfVars>>

\* pansharpen.py:63
CallPansharpening ==
    /\ pc = "S63"
    /\ call' = CallFunction(pansharpening_params, call_args)
    /\ pc' = "exit"
    /\ UNCHANGED <<exists, bbox, os_system, pipeVars, hpfVars>>

NextScript ==
    \/ GetBBox
    \/ Warp
    \/ Reuse
    \/ CallPansharpening

SpecScript == InitScript /\ [][NextScript]_vars

---------------------------------------------------------------------------
\* Vocabulary of the properties

Min(a, b) == IF a <= b THEN a ELSE b
Max(a, b) == IF a >= b THEN a ELSE b

\* at distance >= 2 from every edge of a Rows x Cols raster
Interior(r, c) == r >= 2 /\ r <= Rows - 3 /\ c >= 2 /\ c <= Cols - 3
InteriorCells == {p \in Cells : Interior(p[1], p[2])}
BorderCells == Cells \ InteriorCells

Offsets == (-2..2) \X (-2..2)

\* the bands written so far to the output dataset
Written ==
    IF pc \in {"L156", "L164", "L168", "done"} THEN out_img.written ELSE {}

NBands == mul_file.RasterCount

InPipeline == pc \in {"L121", "L124", "L127", "L130", "L156", "L164", "L168", "done"}

SentinelGiven == InPipeline /\ nodata # None
SentinelIsNaN == SentinelGiven /\ isnan(nodata[1])

\* no pixel of either input equals the nodata argument
NoSentinelCells ==
    \/ nodata = None
    \/ /\ \A p \in Cells : ~FloatEq(F(pan_file.band[1][p[1]][p[2]]), nodata[1])
       /\ \A b \in 1..NBands : \A p \in Cells :
            ~FloatEq(F(mul_file.band[b][p[1]][p[2]]), nodata[1])

\* the MUL and PAN stacks of the claims: the inputs as float arrays, the
\* PAN pixels equal to the sentinel being nan
MulIn(b, r, c) == F(mul_file.band[b][r][c])
PanStack == read_raster(pan_file, nodata)[1]

\* C1: for a 1-band PAN and an N-band MUL of the same size with no cell
\* equal to the nodata sentinel, pansharpening writes exactly N bands and
\* every interior pixel of band b is mul[b] + (pan[0] - pan_highpass[0]),
\* pan_highpass being high_pass_filter of the PAN stack.
C1_InteriorFusion ==
    (pc = "done" /\ NoSentinelCells /\ pan_file.RasterCount = 1) =>
        /\ out_img.RasterCount = NBands
        /\ out_img.written = 1..NBands
        /\ LET hp == high_pass_filter(PanStack)
           IN  \A b \in 1..NBands : \A p \in InteriorCells :
                 out_img.band[b][p[1]][p[2]] =
                    Add(MulIn(b, p[1], p[2]),
                        Sub(PanStack[0][p[1]][p[2]], hp[0][p[1]][p[2]]))

C1_Witness ==
    /\ pc = "done" /\ NoSentinelCells /\ nodata # None /\ NBands >= 2
    /\ \E p \in InteriorCells :
        /\ ~isnan(out_img.band[2][p[1]][p[2]])
        /\ out_img.band[2][p[1]][p[2]] # MulIn(2, p[1], p[2])
        /\ pan_spatial[0][p[1]][p[2]] # F(0)

\* C3 (as claimed): with a sentinel s, every MUL cell equal to s is nan in
\* the fused band before restoration and s in the written band, at every
\* position.
C3_NodataRoundTrip ==
    SentinelGiven =>
        \A b \in Written : \A p \in Cells :
            FloatEq(MulIn(b, p[1], p[2]), nodata[1]) =>
                /\ isnan(fused[b][p[1]][p[2]])
                /\ out_img.band[b][p[1]][p[2]] = nodata[1]

\* C5 (as claimed): with a sentinel no written band holds nan, every cell
\* computed as nan holds the sentinel and every other cell is written as
\* computed; without one the band is written as computed and carries no
\* nodata tag.
C5_NaNReplaced ==
    \A b \in Written : \A p \in Cells :
        LET pre == fused[b][p[1]][p[2]]
            out == out_img.band[b][p[1]][p[2]]
        IN  IF nodata # None
            THEN /\ ~isnan(out)
                 /\ isnan(pre) => out = nodata[1]
                 /\ ~isnan(pre) => out = pre
            ELSE /\ out = pre
                 /\ out_img.NoDataValue[b] = None

\* C6: high_pass_filter's output is nan within 2 cells of every edge, and
\* with a sentinel every such pixel of each of the N written bands holds
\* the sentinel.
C6_BorderIsNodata ==
    /\ pc \in {"L127", "L130", "L156", "L164", "L168", "done"} =>
        \A b \in DOMAIN pan_spatial : \A p \in BorderCells :
            isnan(pan_spatial[b][p[1]][p[2]])
    /\ SentinelGiven =>
        \A b \in Written : \A p \in BorderCells :
            out_img.band[b][p[1]][p[2]] = nodata[1]
    /\ pc = "done" => Written = 1..NBands

C6_Witness ==
    /\ pc = "done" /\ SentinelGiven /\ ~isnan(nodata[1]) /\ NBands >= 2
    /\ \A b \in 1..NBands : \A p \in BorderCells :
        /\ out_img.band[b][p[1]][p[2]] = nodata[1]
        /\ MulIn(b, p[1], p[2]) # nodata[1]
    /\ \E p \in InteriorCells : out_img.band[1][p[1]][p[2]] # nodata[1]

\* C8 (as claimed): a nan sentinel aborts the run, no band is written.
C8_NaNSentinelIsFatal ==
    SentinelIsNaN => (Written = {} /\ pc # "done")

\* C9: bands are written in the order 1..N, each once; with a sentinel a
\* band's nodata tag is set just before its pixels are written; the PAN
\* geotransform and projection are attached after all N bands; the flush
\* comes last.
IsOp(k, name) == log[k].op = name

C9_WriteOrder ==
    InPipeline =>
        LET n == Len(log)
            writes == {k \in 1..n : IsOp(k, "WriteArray")}
        IN  /\ \A j, k \in writes : j < k => log[j].band < log[k].band
            /\ {log[k].band : k \in writes} = 1..Cardinality(writes)
            /\ Cardinality(writes) <= NBands
            /\ \A k \in writes :
                 nodata # None =>
                    /\ k > 1
                    /\ log[k - 1] = [op |-> "SetNoDataValue", band |-> log[k].band]
            /\ \A k \in 1..n :
                 IsOp(k, "SetNoDataValue") =>
                    /\ nodata # None
                    /\ k < n
                    /\ log[k + 1] = [op |-> "WriteArray", band |-> log[k].band]
            /\ \A k \in 1..n :
                 (IsOp(k, "SetGeoTransform") \/ IsOp(k, "SetProjection")) =>
                    /\ Cardinality({j \in writes : j < k}) = NBands
                    /\ \A j \in writes : j < k
            /\ \A k \in 1..n : IsOp(k, "FlushCache") => k = n
            /\ pc = "done" =>
                 /\ Cardinality(writes) = NBands
                 /\ IsOp(n, "FlushCache")
                 /\ Cardinality({k \in 1..n : IsOp(k, "SetGeoTransform")}) = 1
                 /\ Cardinality({k \in 1..n : IsOp(k, "SetProjection")}) = 1
                 /\ out_img.geoTrans = pan_file.geoTrans
                 /\ out_img.projection = pan_file.projection
                 /\ out_img.flushed

C9_Witness ==
    /\ pc = "done" /\ nodata # None /\ NBands >= 2
    /\ Len(log) = 2 * NBands + 3
    /\ out_img.geoTrans # mul_file.geoTrans
    /\ out_img.projection # mul_file.projection

---------------------------------------------------------------------------
\* high_pass_filter on its own

RECURSIVE SumSeq(_)
SumSeq(q) == IF q = <<>> THEN 0 ELSE Head(q) + SumSeq(Tail(q))

\* the sum of the 25 weights, in units of 1 / Scale
KernelSum == SumSeq([a \in 1..Len(highPassMatrix) |-> SumSeq(highPassMatrix[a])])

\* the 5x5 neighbourhood of the interior cell p in band b holds x everywhere
Flat(a, b, p, x) ==
    \A d \in Offsets : a[b][p[1] + d[1]][p[2] + d[2]] = x

FiniteAround(a, b, p) ==
    \A d \in Offsets : ~isnan(a[b][p[1] + d[1]][p[2] + d[2]])

Returned == pc = "returned"

\* C2 (as claimed): the weights sum to 1 and a single-band stack flat at c
\* around an interior cell is filtered to c there.
C2_SumOneFlatField ==
    Returned =>
        /\ KernelSum = Scale
        /\ nbands(array) = 1 =>
            \A p \in InteriorCells : \A c \in Vals :
                Flat(array, 0, p, F(c)) =>
                    convolve_image[0][p[1]][p[2]] = F(c)

\* C2 (amended): the weights sum to 0 and a single-band stack flat at c
\* around an interior cell is filtered to 0 there.
C2_SumZeroFlatField ==
    Returned =>
        /\ KernelSum = 0
        /\ nbands(array) = 1 =>
            \A p \in InteriorCells : \A c \in Vals :
                Flat(array, 0, p, F(c)) =>
                    convolve_image[0][p[1]][p[2]] = F(0)

C2_Witness ==
    /\ Returned /\ nbands(array) = 1
    /\ \E p \in InteriorCells :
        /\ Flat(array, 0, p, F(1))
        /\ convolve_image[0][p[1]][p[2]] = F(0)

\* C4 (as claimed): for any band count the output has the input's shape,
\* every interior cell whose 5x5 neighbourhood in its own band is finite is
\* finite, and each band is the filter of that band alone.
C4_PerBandFinite ==
    Returned =>
        /\ shape(convolve_image) = shape(array)
        /\ \A b \in DOMAIN array : \A p \in InteriorCells :
            FiniteAround(array, b, p) => ~isnan(convolve_image[b][p[1]][p[2]])
        /\ \A b \in DOMAIN array :
            convolve_image[b] = high_pass_filter([z \in {0} |-> array[b]])[0]

---------------------------------------------------------------------------
\* The reference flow

\* C7 (as claimed): get_bbox returns (min-x, min-y, max-x, max-y, res-x,
\* res-y), the bounds being the smaller and the larger of origin and
\* origin + dimension * pixel size, for every geotransform.
C7_BBoxIsMinMax ==
    pc \in {"S46", "S63", "exit"} =>
        LET gt == pan_file.geoTrans
            x0 == gt[1]
            x1 == gt[1] + pan_file.RasterXSize * gt[2]
            y0 == gt[4]
            y1 == gt[4] + pan_file.RasterYSize * gt[6]
        IN  bbox = <<Min(x0, x1), Min(y0, y1), Max(x0, x1), Max(y0, y1),
                     gt[2], gt[6]>>

\* C10 (as claimed): the warp runs exactly when the resampled file is
\* missing, at most once, on the PAN bounding box; then the fusion runs on
\* the resampled path, the PAN path and the output path.
C10_WarpThenFusion ==
    pc = "exit" =>
        /\ Len(os_system) = (IF exists THEN 0 ELSE 1)
        /\ \A k \in 1..Len(os_system) :
            os_system[k] = gdal_warp_resolved(get_bbox(pan_file))
        /\ call.args = <<mul_img_resized, pan_img, out_path>>
        /\ call.ran

====
